---- MODULE Spec2Model ----
(***************************************************************************)
(* Model of wordle_solver.solver.WordleSolver: construction from two word  *)
(* collections, the three validation methods, and the memoised             *)
(* get_response with its per-letter scoring.                                *)
(*                                                                         *)
(* A word is a sequence of one-character strings.  Python indexes from 0,   *)
(* TLA+ from 1: an operator that takes a Python index adds 1 when it reads. *)
(* A raised ValueError is modelled by the message of the raise; OK is the   *)
(* normal return of a method that returns None.                             *)
(***************************************************************************)
EXTENDS Integers, Sequences, FiniteSets

VARIABLES
    pc,            \* "new" before __init__, "ready" after it returned, "failed" after it raised
    in_guess,      \* the guess_words argument of __init__ (its elements)
    in_answer,     \* the answer_words argument of __init__ (its elements)
    in_hard,       \* the hard_mode argument of __init__
    guess_once,    \* TRUE when the guess_words argument is a one-shot iterator
    answer_once,   \* TRUE when the answer_words argument is a one-shot iterator
    guess_words,   \* self.guess_words
    answer_words,  \* self.answer_words
    hard_mode,     \* self.hard_mode
    cache,         \* the functools.cache table of get_response on this engine
    twin_cache,    \* the same table of a second engine that differs only in hard_mode
    call,          \* the last method call on the engine: arguments and outcome
    sguess,        \* scoring run: the guess
    starget,       \* scoring run: the target
    sresponse      \* scoring run: the tuple built at solver.py:121-127, <<>> before

engine == <<guess_words, answer_words, hard_mode>>
supplied == <<in_guess, in_answer, in_hard, guess_once, answer_once>>
scoring == <<sguess, starget, sresponse>>
vars == <<pc, supplied, engine, cache, twin_cache, call, scoring>>

----------------------------------------------------------------------------
(* Bounds and input domains *)

WORD_LENGTH == 5

\* number of distinct letters the exhaustive scoring run draws words from
NumLetters == 3

\* largest number of distinct words in each collection passed to __init__
MaxSupplied == 2

Alphabet == <<"a", "b", "c", "d", "e", "f">>

Letters == {Alphabet[i] : i \in 1..NumLetters}

\* every five-letter word over Letters
Words5 == [1..WORD_LENGTH -> Letters]

\* the characters str.isalpha accepts, among those the inputs are made of
Alpha == {"a", "b", "c", "d", "e", "f", "g", "h", "i", "j", "k", "l", "m",
          "n", "o", "p", "q", "r", "s", "t", "u", "v", "w", "x", "y", "z"}

SPEED == <<"s", "p", "e", "e", "d">>
ERASE == <<"e", "r", "a", "s", "e">>
SP3ED == <<"s", "p", "3", "e", "d">>
SPED == <<"s", "p", "e", "d">>

\* the strings the engine is built from and queried with
WordPool == {SPEED, ERASE, SP3ED, SPED}

\* a collection argument of __init__
Collections == {S \in SUBSET WordPool : Cardinality(S) <= MaxSupplied}

\* Optional[AbstractSet[str]]: {} is None, {S} is the set S
None == {}
Some(S) == {S}
ValidAnswerArgs == {None, Some({}), Some({SPEED})}

----------------------------------------------------------------------------
(* GuessResult and the outcomes of a call *)

INCORRECT == "INCORRECT"
MISPLACED == "MISPLACED"
CORRECT == "CORRECT"
GuessResult == {INCORRECT, MISPLACED, CORRECT}

OK == "ok"
ErrLength == "ValueError: Invalid Word length"
ErrAlpha == "ValueError: Word must contain only alphabetic characters"
ErrGuess == "ValueError: Guess not in valid words"
ErrHard == "ValueError: Hard mode guess not in valid answers"
ErrTarget == "ValueError: Target not in valid words"
ErrAnswerGuess == "ValueError: Answer word must be in the guess words"

NoWord == <<>>
NoResponse == <<>>
NoCall == [op |-> "none", guess |-> NoWord, target |-> NoWord, valid_answers |-> None,
           outcome |-> OK, ret |-> NoResponse, scored |-> 0,
           twin_outcome |-> OK, twin_ret |-> NoResponse]

----------------------------------------------------------------------------
(* Validation methods *)

isalpha(word) == Len(word) > 0 /\ \A i \in 1..Len(word) : word[i] \in Alpha

validate_word(word) ==
    IF Len(word) # WORD_LENGTH THEN ErrLength
    ELSE IF ~isalpha(word) THEN ErrAlpha
    ELSE OK

\* mutant: the hard_mode flag is not consulted
validate_guess_any_mode(gw, hm, guess, valid_answers) ==
    IF validate_word(guess) # OK THEN validate_word(guess)
    ELSE IF guess \notin gw THEN ErrGuess
    ELSE IF valid_answers # None /\ (\E S \in valid_answers : guess \notin S) THEN ErrHard
    ELSE OK

validate_guess(gw, hm, guess, valid_answers) ==
    IF validate_word(guess) # OK THEN validate_word(guess)
    ELSE IF guess \notin gw THEN ErrGuess
    ELSE IF hm /\ valid_answers # None /\ (\E S \in valid_answers : guess \notin S) THEN ErrHard
    ELSE OK

\* mutant: the target is not looked up in the answer set
validate_answer_no_lookup(aw, target) ==
    IF validate_word(target) # OK THEN validate_word(target)
    ELSE OK

validate_answer(aw, target) ==
    IF validate_word(target) # OK THEN validate_word(target)
    ELSE IF target \notin aw THEN ErrTarget
    ELSE OK

----------------------------------------------------------------------------
(* Scoring *)

\* mutant: the equal-letters test is left out
by_letter_no_correct(guess, target, index) ==
    IF \A j \in 1..Len(target) : target[j] # guess[index + 1] THEN INCORRECT
    ELSE IF \E j \in 0..(WORD_LENGTH - 1) :
                guess[index + 1] = target[j + 1] /\ target[j + 1] # guess[j + 1]
         THEN MISPLACED
    ELSE INCORRECT

\* mutant: a letter that occurs in the target is misplaced wherever it occurs
by_letter_any_occurrence(guess, target, index) ==
    IF guess[index + 1] = target[index + 1] THEN CORRECT
    ELSE IF \A j \in 1..Len(target) : target[j] # guess[index + 1] THEN INCORRECT
    ELSE MISPLACED

\* mutant: == written for != in the chained comparison
by_letter_matched_occurrence(guess, target, index) ==
    IF guess[index + 1] = target[index + 1] THEN CORRECT
    ELSE IF \A j \in 1..Len(target) : target[j] # guess[index + 1] THEN INCORRECT
    ELSE IF \E j \in 0..(WORD_LENGTH - 1) :
                guess[index + 1] = target[j + 1] /\ target[j + 1] = guess[j + 1]
         THEN MISPLACED
    ELSE INCORRECT

_get_response_by_letter(guess, target, index) ==
    IF guess[index + 1] = target[index + 1] THEN CORRECT
    ELSE IF \A j \in 1..Len(target) : target[j] # guess[index + 1] THEN INCORRECT
    ELSE IF \E j \in 0..(WORD_LENGTH - 1) :
                guess[index + 1] = target[j + 1] /\ target[j + 1] # guess[j + 1]
         THEN MISPLACED
    ELSE INCORRECT

\* the tuple expression returned by get_response
ResponseTuple(guess, target) ==
    << _get_response_by_letter(guess, target, 0),
       _get_response_by_letter(guess, target, 1),
       _get_response_by_letter(guess, target, 2),
       _get_response_by_letter(guess, target, 3),
       _get_response_by_letter(guess, target, 4) >>

----------------------------------------------------------------------------
(* get_response behind functools.cache *)

\* valid_answers when the caller leaves it out
DefaultValidAnswers == None

\* mutant: get_response hands the answer set to validate_guess
GetResponseValidAnswers_answers(aw) == Some(aw)

\* the valid_answers argument of the validate_guess call in get_response
GetResponseValidAnswers(aw) == DefaultValidAnswers

\* mutant: the table is keyed by the guess alone
CacheKey_guess_only(guess, target) == <<guess, NoWord>>

\* the key functools.cache files a call under (self is the table's owner)
CacheKey(guess, target) == <<guess, target>>

\* what the decorated method does on an engine with sets gw, aw, flag hm and
\* cache table c: a hit returns the stored value and runs nothing; a miss runs
\* the body, and only a normal return is stored
get_response(gw, aw, hm, c, guess, target) ==
    IF CacheKey(guess, target) \in DOMAIN c
    THEN [outcome |-> OK, ret |-> c[CacheKey(guess, target)], scored |-> 0, cache |-> c]
    ELSE IF validate_guess(gw, hm, guess, GetResponseValidAnswers(aw)) # OK
    THEN [outcome |-> validate_guess(gw, hm, guess, GetResponseValidAnswers(aw)),
          ret |-> NoResponse, scored |-> 0, cache |-> c]
    ELSE IF validate_answer(aw, target) # OK
    THEN [outcome |-> validate_answer(aw, target),
          ret |-> NoResponse, scored |-> 0, cache |-> c]
    ELSE [outcome |-> OK, ret |-> ResponseTuple(guess, target), scored |-> WORD_LENGTH,
          cache |-> [k \in DOMAIN c \cup {CacheKey(guess, target)} |->
                        IF k = CacheKey(guess, target)
                        THEN ResponseTuple(guess, target) ELSE c[k]]]

----------------------------------------------------------------------------
(* Construction *)

\* what the validation loops of __init__ see when they iterate an argument
\* that frozenset() has already iterated once
Reiterate(collection, once) == IF once THEN {} ELSE collection

\* mutant: the answers are not added to the guesses
EffectiveGuessWords_no_union(gs, as) == gs

\* self.guess_words
EffectiveGuessWords(gs, as) == gs \cup as

\* the words at which the two validation loops raise
GuessLoopFailures(gs, as, hm, g1) ==
    {w \in Reiterate(gs, g1) : validate_guess(EffectiveGuessWords(gs, as), hm, w, DefaultValidAnswers) # OK}

AnswerLoopFailures(gs, as, a1) ==
    {w \in Reiterate(as, a1) : validate_answer(as, w) # OK \/ w \notin EffectiveGuessWords(gs, as)}

InitOutcome(gs, as, hm, g1, a1) ==
    IF GuessLoopFailures(gs, as, hm, g1) # {}
    THEN validate_guess(EffectiveGuessWords(gs, as), hm,
                        CHOOSE w \in GuessLoopFailures(gs, as, hm, g1) : TRUE,
                        DefaultValidAnswers)
    ELSE IF AnswerLoopFailures(gs, as, a1) # {}
    THEN LET w == CHOOSE x \in AnswerLoopFailures(gs, as, a1) : TRUE
         IN IF validate_answer(as, w) # OK THEN validate_answer(as, w) ELSE ErrAnswerGuess
    ELSE OK

Construct(gs, as, hm, g1, a1) ==
    /\ pc = "new"
    /\ in_guess' = gs
    /\ in_answer' = as
    /\ in_hard' = hm
    /\ guess_once' = g1
    /\ answer_once' = a1
    /\ answer_words' = as
    /\ guess_words' = EffectiveGuessWords(gs, as)
    /\ hard_mode' = hm
    /\ pc' = IF InitOutcome(gs, as, hm, g1, a1) = OK THEN "ready" ELSE "failed"
    /\ call' = [NoCall EXCEPT !.op = "__init__", !.outcome = InitOutcome(gs, as, hm, g1, a1)]
    /\ UNCHANGED <<cache, twin_cache, scoring>>

----------------------------------------------------------------------------
(* Calls on a constructed engine *)

CallValidateWord(word) ==
    /\ pc = "ready"
    /\ call' = [NoCall EXCEPT !.op = "validate_word", !.guess = word,
                              !.outcome = validate_word(word)]
    /\ UNCHANGED <<pc, supplied, engine, cache, twin_cache, scoring>>

CallValidateGuess(guess, valid_answers) ==
    /\ pc = "ready"
    /\ call' = [NoCall EXCEPT !.op = "validate_guess", !.guess = guess,
                              !.valid_answers = valid_answers,
                              !.outcome = validate_guess(guess_words, hard_mode,
                                                         guess, valid_answers)]
    /\ UNCHANGED <<pc, supplied, engine, cache, twin_cache, scoring>>

CallValidateAnswer(target) ==
    /\ pc = "ready"
    /\ call' = [NoCall EXCEPT !.op = "validate_answer", !.target = target,
                              !.outcome = validate_answer(answer_words, target)]
    /\ UNCHANGED <<pc, supplied, engine, cache, twin_cache, scoring>>

\* the same call made on the engine and on its twin, whose hard_mode is the
\* opposite and whose word sets are the same
CallGetResponse(guess, target) ==
    /\ pc = "ready"
    /\ LET r == get_response(guess_words, answer_words, hard_mode, cache, guess, target)
           t == get_response(guess_words, answer_words, ~hard_mode, twin_cache, guess, target)
       IN /\ call' = [NoCall EXCEPT !.op = "get_response", !.guess = guess, !.target = target,
                                    !.outcome = r.outcome, !.ret = r.ret, !.scored = r.scored,
                                    !.twin_outcome = t.outcome, !.twin_ret = t.ret]
          /\ cache' = r.cache
          /\ twin_cache' = t.cache
    /\ UNCHANGED <<pc, supplied, engine, scoring>>

EmptyCache == [k \in {} |-> NoResponse]

Init ==
    /\ pc = "new"
    /\ in_guess = {}
    /\ in_answer = {}
    /\ in_hard = FALSE
    /\ guess_once = FALSE
    /\ answer_once = FALSE
    /\ guess_words = {}
    /\ answer_words = {}
    /\ hard_mode = FALSE
    /\ cache = EmptyCache
    /\ twin_cache = EmptyCache
    /\ call = NoCall
    /\ sguess = NoWord
    /\ starget = NoWord
    /\ sresponse = NoResponse

Next ==
    \/ \E gs \in Collections, as \in Collections, hm \in BOOLEAN,
          g1 \in BOOLEAN, a1 \in BOOLEAN : Construct(gs, as, hm, g1, a1)
    \/ \E word \in WordPool : CallValidateWord(word)
    \/ \E guess \in WordPool, va \in ValidAnswerArgs : CallValidateGuess(guess, va)
    \/ \E target \in WordPool : CallValidateAnswer(target)
    \/ \E guess \in WordPool, target \in WordPool : CallGetResponse(guess, target)

Spec == Init /\ [][Next]_vars

----------------------------------------------------------------------------
(* Exhaustive scoring run: the body of get_response past its two            *)
(* validations, on every pair of five-letter words over Letters             *)

Score(guess, target) ==
    /\ sguess' = guess
    /\ starget' = target
    /\ sresponse' = ResponseTuple(guess, target)
    /\ UNCHANGED <<pc, supplied, engine, cache, twin_cache, call>>

\* one scoring per run: the inputs are drawn once
ScoreNext ==
    /\ sresponse = NoResponse
    /\ \E guess \in Words5, target \in Words5 : Score(guess, target)

SpecScore == Init /\ [][ScoreNext]_vars

----------------------------------------------------------------------------
(* Properties *)

\* a word of exactly five alphabetic characters, stated without validate_word
FiveLetters(w) == Len(w) = 5 /\ \A i \in DOMAIN w : w[i] \in Alpha

Positions == 1..WORD_LENGTH

Scored == sresponse # NoResponse

\* position j of the target holds the letter guessed at i and is not matched
\* exactly by the guess
Unclaimed(guess, target, i, j) == target[j] = guess[i] /\ guess[j] # target[j]

\* C1: at every position the status is Correct exactly when the guess and the
\* target hold the same letter there.
C1_CorrectIffEqual ==
    Scored => \A i \in Positions : (sresponse[i] = CORRECT) <=> (sguess[i] = starget[i])

\* a scored pair with an equal position and a differing position whose letter
\* occurs in the target
C1_Witness ==
    /\ Scored
    /\ \E i \in Positions : sguess[i] = starget[i] /\ sresponse[i] = CORRECT
    /\ \E i, j \in Positions : sguess[i] # starget[i] /\ starget[j] = sguess[i]

\* C2: at a position where the letters differ the status is Misplaced when some
\* other position of the target holds the guessed letter unmatched, and
\* Incorrect when none does.
C2_MisplacedIffUnclaimed ==
    Scored =>
        \A i \in Positions :
            sguess[i] # starget[i] =>
                sresponse[i] =
                    IF \E j \in Positions \ {i} : Unclaimed(sguess, starget, i, j)
                    THEN MISPLACED ELSE INCORRECT

\* a scored pair with a Misplaced letter and with a letter that occurs in the
\* target only where the guess matches it, scored Incorrect
C2_Witness ==
    /\ Scored
    /\ \E i \in Positions : sresponse[i] = MISPLACED
    /\ \E i \in Positions :
          /\ sguess[i] # starget[i]
          /\ \E j \in Positions : starget[j] = sguess[i]
          /\ \A j \in Positions : ~Unclaimed(sguess, starget, i, j)
          /\ sresponse[i] = INCORRECT

\* the standard two-pass scoring: exact matches consume their target letter,
\* then each other guess letter, left to right, consumes one unconsumed
\* occurrence of itself in the target if there is one
SetMin(S) == CHOOSE x \in S : \A y \in S : x <= y

RECURSIVE TwoPassFrom(_, _, _, _, _)
TwoPassFrom(guess, target, i, consumed, acc) ==
    IF i > WORD_LENGTH THEN acc
    ELSE IF guess[i] = target[i]
    THEN TwoPassFrom(guess, target, i + 1, consumed, Append(acc, CORRECT))
    ELSE LET free == {j \in Positions \ consumed : target[j] = guess[i]}
         IN IF free # {}
            THEN TwoPassFrom(guess, target, i + 1, consumed \cup {SetMin(free)},
                             Append(acc, MISPLACED))
            ELSE TwoPassFrom(guess, target, i + 1, consumed, Append(acc, INCORRECT))

TwoPass(guess, target) ==
    TwoPassFrom(guess, target, 1, {j \in Positions : guess[j] = target[j]}, <<>>)

\* C3: the response equals the response of the standard two-pass algorithm.
C3_EqualsTwoPass == Scored => sresponse = TwoPass(sguess, starget)

IsGetResponse == pc = "ready" /\ call.op = "get_response"

\* C4: get_response returns a Response exactly when the guess is a five-letter
\* word of the guess set and the target a five-letter word of the answer set;
\* otherwise it raises, returns nothing and has scored no letter.
C4_ValidatedBeforeScoring ==
    IsGetResponse =>
        IF /\ FiveLetters(call.guess) /\ call.guess \in guess_words
           /\ FiveLetters(call.target) /\ call.target \in answer_words
        THEN call.outcome = OK /\ Len(call.ret) = WORD_LENGTH
        ELSE call.outcome # OK /\ call.ret = NoResponse /\ call.scored = 0

\* a call that passes the guess validation and raises on the target
C4_Witness ==
    /\ IsGetResponse
    /\ FiveLetters(call.guess) /\ call.guess \in guess_words
    /\ FiveLetters(call.target) /\ call.target \notin answer_words
    /\ call.outcome = ErrTarget

\* C5: every cache entry is the response computed for its pair, and a
\* get_response call returns what the same call returns on an empty cache.
C5_MemoTransparent ==
    pc = "ready" =>
        /\ \A k \in DOMAIN cache :
              /\ k[1] \in guess_words
              /\ k[2] \in answer_words
              /\ cache[k] = ResponseTuple(k[1], k[2])
        /\ call.op = "get_response" =>
              LET fresh == get_response(guess_words, answer_words, hard_mode,
                                        EmptyCache, call.guess, call.target)
              IN call.outcome = fresh.outcome /\ call.ret = fresh.ret

\* a call answered from the cache while the cache holds several pairs
C5_Witness ==
    /\ IsGetResponse
    /\ call.outcome = OK
    /\ call.scored = 0
    /\ Cardinality(DOMAIN cache) >= 2

\* C6: on a constructed engine answer_words is the supplied answers,
\* guess_words is the supplied guesses together with the supplied answers,
\* hard_mode is the supplied flag, and answer_words is a subset of guess_words,
\* whatever calls have been made since.
C6_AnswersWithinGuesses ==
    pc = "ready" =>
        /\ answer_words = in_answer
        /\ guess_words = in_guess \cup in_answer
        /\ hard_mode = in_hard
        /\ answer_words \subseteq guess_words

\* an engine whose guess list omitted an answer, after a get_response call
C6_Witness ==
    /\ IsGetResponse
    /\ in_answer \ in_guess # {}
    /\ call.outcome = OK

\* C7: construction raises exactly when some supplied word is not five
\* alphabetic characters.
C7_FailsIffMalformed ==
    pc \in {"ready", "failed"} =>
        ((pc = "failed") <=> (\E w \in in_guess \cup in_answer : ~FiveLetters(w)))

IsValidateGuess == pc = "ready" /\ call.op = "validate_guess"

HardModeViolation ==
    hard_mode /\ call.valid_answers # None /\ \E S \in call.valid_answers : call.guess \notin S

\* C8: validate_guess raises exactly when the guess is not five alphabetic
\* characters, or is not in the guess set, or hard_mode is on, valid_answers
\* is supplied and the guess is not in it.
C8_ValidateGuessFailsExactly ==
    IsValidateGuess =>
        ((call.outcome # OK) <=>
            \/ ~FiveLetters(call.guess)
            \/ call.guess \notin guess_words
            \/ HardModeViolation)

\* a hard-mode engine rejecting a word of its guess set that is outside the
\* supplied valid_answers
C8_Witness ==
    /\ IsValidateGuess
    /\ call.guess \in guess_words
    /\ FiveLetters(call.guess)
    /\ HardModeViolation
    /\ call.outcome = ErrHard

SpeedErase ==
    IsGetResponse /\ call.guess = SPEED /\ call.target = ERASE /\ call.outcome = OK

\* C9 as stated: SPEED against ERASE gives S Incorrect, P Incorrect, E Misplaced.
C9_SpeedErase_Stated ==
    SpeedErase =>
        call.ret[1] = INCORRECT /\ call.ret[2] = INCORRECT /\ call.ret[3] = MISPLACED

\* C9 amended: SPEED against ERASE gives S Misplaced, P Incorrect, E Misplaced.
C9_SpeedErase ==
    SpeedErase =>
        call.ret[1] = MISPLACED /\ call.ret[2] = INCORRECT /\ call.ret[3] = MISPLACED

\* SPEED has been scored against ERASE
C9_Witness == SpeedErase /\ call.scored = WORD_LENGTH

\* C10: the same get_response call on two engines that differ only in
\* hard_mode ends the same way: the same Response, or a failure on both.
C10_HardModeIgnored ==
    IsGetResponse =>
        /\ (call.outcome = OK) <=> (call.twin_outcome = OK)
        /\ call.ret = call.twin_ret

\* a hard-mode engine and its twin both answering a call
C10_Witness ==
    /\ IsGetResponse
    /\ hard_mode
    /\ call.outcome = OK
    /\ call.twin_outcome = OK
    /\ call.ret # NoResponse

====
